---- MODULE Spec2Model ----
(***************************************************************************)
(* A model of coio's coroutine-aware mpsc channels (src/sync/mpsc.rs):     *)
(* the unbounded pair Sender/Receiver and the bounded pair                 *)
(* SyncSender/SyncReceiver, with their wait lists, the locks that guard    *)
(* them, the parking protocol of the blocking calls and the endpoint       *)
(* drops.  Every producer handle and the receiver run as processes of      *)
(* their own (a coroutine on some worker thread, or a plain thread), so    *)
(* all interleavings of their steps are explored.                          *)
(***************************************************************************)
EXTENDS Integers, Sequences, FiniteSets, TLC

\* ------------------------------------------------------------- bounds
NProd == 2          \* producer handles (the Sender and its clones)
MaxSend == 2        \* send/try_send calls per producer handle
MaxTotalSend == 3   \* send/try_send calls of all producer handles together
MaxRecv == 3        \* recv/try_recv calls of the receiver
MaxCap == 2         \* largest capacity given to sync_channel

Rx == 0
Prod == 1..NProd
Proc == Prod \cup {Rx}

VARIABLES
    kind,       \* "chan": channel(), "sync": sync_channel(cap)
    cap,        \* the bound given to sync_channel
    inSched,    \* inSched[p]: Processor::current() is Some for p's thread
    queue,      \* the items buffered in the underlying primitive
    txInner,    \* producers whose `inner` is still Some (primitive senders)
    rxInner,    \* the primitive's receiver half is alive
    arcs,       \* holders of the Arc of the consumer-side wait list
    wl,         \* Receiver.wait_list / recv_wait_list
    swl,        \* send_wait_list (bounded channel)
    lockR,      \* holder of the Mutex of wl (empty: free)
    lockS,      \* holder of the Mutex of swl (empty: free)
    pc,         \* position of each process in its current call
    val,        \* val[p]: the value t of producer p's current call
    r,          \* r[p]: the result of p's last non-blocking attempt
    nops,       \* calls started so far by each process
    parkedIn,   \* parkedIn[p]: p's current call has pushed its handle
    lastRet,    \* the call that returned last, with its result
    pushed,     \* values the primitive accepted, in order
    delivered,  \* values returned by recv/try_recv, in order
    okOrder     \* values whose send/try_send returned Ok, in return order

vars == <<kind, cap, inSched, queue, txInner, rxInner, arcs, wl, swl,
          lockR, lockS, pc, val, r, nops, parkedIn, lastRet, pushed,
          delivered, okOrder>>

\* ------------------------------------------------------------ results
None == [k |-> "None", v |-> 0]
Ok(v) == [k |-> "Ok", v |-> v]
Empty == [k |-> "Empty", v |-> 0]
Full(v) == [k |-> "Full", v |-> v]
Disconnected(v) == [k |-> "Disc", v |-> v]
NoRet == [p |-> Rx, op |-> "none", k |-> "None", v |-> 0, t |-> 0,
          parked |-> FALSE]

Range(s) == {s[i] : i \in 1..Len(s)}

\* ------------------------------------------------- underlying primitive
\* mpsc::Sender::send: never blocks, fails once the receiver is gone.
InnerSend(q, rxAlive, t) ==
    IF ~rxAlive THEN [res |-> Disconnected(t), q |-> q]
    ELSE [res |-> Ok(0), q |-> Append(q, t)]

\* mpsc::SyncSender::try_send
InnerTrySend(q, c, rxAlive, t) ==
    IF ~rxAlive THEN [res |-> Disconnected(t), q |-> q]
    ELSE IF Len(q) >= c THEN [res |-> Full(t), q |-> q]
    ELSE [res |-> Ok(0), q |-> Append(q, t)]

\* mpsc::Receiver::try_recv of channel(): buffered items first.
InnerTryRecvChan(q, senders) ==
    IF q # <<>> THEN [res |-> Ok(Head(q)), q |-> Tail(q)]
    ELSE IF senders = {} THEN [res |-> Disconnected(0), q |-> q]
    ELSE [res |-> Empty, q |-> q]

\* mpsc::Receiver::try_recv of sync_channel(): the results the primitive may
\* give.  Once every sender is gone it may report the disconnect although
\* items are still buffered (the note of lines 336-339), or hand them out
\* first, depending on the primitive.
InnerTryRecvSync(q, senders) ==
    IF senders = {} /\ q # <<>>
        THEN {[res |-> Disconnected(0), q |-> q], InnerTryRecvChan(q, senders)}
    ELSE {InnerTryRecvChan(q, senders)}

\* The results try_recv of the channel's primitive may give.
InnerTryRecv(knd, q, senders) ==
    IF knd = "chan" THEN {InnerTryRecvChan(q, senders)}
    ELSE InnerTryRecvSync(q, senders)

\* The native blocking calls return once they can make progress.
InnerRecvReady(q, senders) == q # <<>> \/ senders = {}
InnerRecv(q, senders) == InnerTryRecvChan(q, senders)
InnerSyncSendReady(q, c, rxAlive) == ~rxAlive \/ Len(q) < c

\* ------------------------------------------------ scheduler, wait lists
\* Scheduler::ready / Processor::ready: the parked coroutine runs again.
Ready(pcf, h) == [pcf EXCEPT ![h] = "resumed"]

\* Every handle of the list is popped and marked ready.
PopWakeAll(list, pcf) ==
    [l |-> <<>>,
     pc |-> [h \in Proc |-> IF h \in Range(list) THEN "resumed" ELSE pcf[h]]]

\* `if let Some(coro) = wait_list.pop_front() { Scheduler::ready(coro) }`
PopWake(list, pcf) ==
    IF list = <<>> THEN [l |-> list, pc |-> pcf]
    ELSE [l |-> Tail(list), pc |-> Ready(pcf, Head(list))]

\* The drain stops after the first handle.
DrainWakeOne(list, pcf) == PopWake(list, pcf)

\* `while let Some(hdl) = wait_list.pop_front() { Scheduler::ready(hdl) }`
DrainWake(list, pcf) ==
    [l |-> <<>>,
     pc |-> [h \in Proc |-> IF h \in Range(list) THEN "resumed" ELSE pcf[h]]]

\* The value of producer p's n-th call.
ValueOf(p, n) == p * 10 + n

RECURSIVE SumOps(_, _)
SumOps(f, S) ==
    IF S = {} THEN 0
    ELSE LET x == CHOOSE y \in S : TRUE IN f[x] + SumOps(f, S \ {x})

\* A producer handle that is alive and idle may start another call.
CanSend(p) ==
    /\ pc[p] = "idle" /\ p \in txInner
    /\ nops[p] < MaxSend
    /\ SumOps(nops, Prod) < MaxTotalSend

CanRecv ==
    /\ pc[Rx] = "idle" /\ rxInner
    /\ nops[Rx] < MaxRecv

Init ==
    /\ kind \in {"chan", "sync"}
    /\ cap \in 1..MaxCap
    /\ (kind = "chan" => cap = 1)
    /\ inSched \in {f \in [Proc -> BOOLEAN] : \A p, q \in Prod : f[p] = f[q]}
    /\ queue = <<>>
    /\ txInner = Prod
    /\ rxInner = TRUE
    /\ arcs = Proc
    /\ wl = <<>>
    /\ swl = <<>>
    /\ lockR = {}
    /\ lockS = {}
    /\ pc = [p \in Proc |-> "idle"]
    /\ val = [p \in Prod |-> 0]
    /\ r = [p \in Proc |-> None]
    /\ nops = [p \in Proc |-> 0]
    /\ parkedIn = [p \in Proc |-> FALSE]
    /\ pushed = <<>>
    /\ lastRet = NoRet
    /\ delivered = <<>>
    /\ okOrder = <<>>

\* A call of p returns res: the result is recorded and p is idle again.
\* t is the value the call was made with (0 for the receiver's calls).
Return(p, pcf, op, res, t) ==
    /\ pc' = [pcf EXCEPT ![p] = "idle"]
    /\ r' = [r EXCEPT ![p] = None]
    /\ lastRet' = [p |-> p, op |-> op, k |-> res.k, v |-> res.v, t |-> t,
                   parked |-> parkedIn[p]]
    /\ parkedIn' = [parkedIn EXCEPT ![p] = FALSE]

\* A receive returns res; an Ok hands its value to the caller.
ReturnRecv(pcf, op, res) ==
    /\ Return(Rx, pcf, op, res, 0)
    /\ delivered' = IF res.k = "Ok" THEN Append(delivered, res.v) ELSE delivered

\* A send of value t returns res.
ReturnSend(p, pcf, op, res, t) ==
    /\ Return(p, pcf, op, res, t)
    /\ okOrder' = IF res.k = "Ok" THEN Append(okOrder, t) ELSE okOrder

\* The value producer p's current call was made with.
Arg(p) == ValueOf(p, nops[p])

\* ----------------------------------------------------- Sender (channel)
\* lines 30-31, 39: Sender::send(t) with a fresh value; self.inner.send(t),
\* whose Err is returned as is.
SenderSend(p) ==
    /\ kind = "chan" /\ CanSend(p)
    /\ nops' = [nops EXCEPT ![p] = @ + 1]
    /\ LET t == ValueOf(p, nops[p] + 1)
           s == InnerSend(queue, rxInner, t) IN
        /\ val' = [val EXCEPT ![p] = t]
        /\ queue' = s.q
        /\ pushed' = IF s.res.k = "Ok" THEN Append(pushed, t) ELSE pushed
        /\ IF s.res.k = "Ok"
            THEN /\ pc' = [pc EXCEPT ![p] = "u_wake"]
                 /\ r' = [r EXCEPT ![p] = s.res]
                 /\ UNCHANGED <<lastRet, parkedIn, okOrder>>
            ELSE ReturnSend(p, pc, "send", s.res, t)
    /\ UNCHANGED <<kind, cap, inSched, txInner, rxInner, arcs, wl, swl,
                   lockR, lockS, delivered>>

\* The wake with `front()` in place of `pop_front()`: the handle is made
\* ready and stays on the list.
SenderSendWakeKeeps(p) ==
    /\ pc[p] = "u_wake"
    /\ lockR = {}
    /\ ReturnSend(p, PopWake(wl, pc).pc, "send", Ok(0), Arg(p))
    /\ UNCHANGED <<kind, cap, inSched, queue, txInner, rxInner, arcs, wl,
                   swl, lockR, lockS, val, nops, pushed, delivered>>

\* lines 33-37: lock the wait list, pop and wake one handle, return Ok.
SenderSendWake(p) ==
    /\ pc[p] = "u_wake"
    /\ lockR = {}
    /\ LET w == PopWake(wl, pc) IN
        /\ wl' = w.l
        /\ ReturnSend(p, w.pc, "send", Ok(0), Arg(p))
    /\ UNCHANGED <<kind, cap, inSched, queue, txInner, rxInner, arcs, swl,
                   lockR, lockS, val, nops, pushed, delivered>>

\* ------------------------------------- Drop for Sender / SyncSender
\* A drop that goes on to the share count with `inner` still in place.
SenderDropCountFirst(p) ==
    /\ pc[p] = "idle" /\ p \in txInner
    /\ pc' = [pc EXCEPT ![p] = "d_check"]
    /\ UNCHANGED <<kind, cap, inSched, queue, txInner, rxInner, arcs, wl,
                   swl, lockR, lockS, val, r, nops, parkedIn, lastRet,
                   pushed, delivered, okOrder>>

\* lines 47 / 225: `self.inner.take()` releases the primitive's sender.
SenderDropTake(p) ==
    /\ pc[p] = "idle" /\ p \in txInner
    /\ txInner' = txInner \ {p}
    /\ pc' = [pc EXCEPT ![p] = "d_check"]
    /\ UNCHANGED <<kind, cap, inSched, queue, rxInner, arcs, wl, swl, lockR,
                   lockS, val, r, nops, parkedIn, lastRet, pushed, delivered,
                   okOrder>>

\* Arc::strong_count(&self.wait_list): the handles that still hold the list.
StrongCount(holders) == Cardinality(holders)

\* The test `<= 1`: the dropping handle's own share is not counted.
IsOnlyHolder(holders) == StrongCount(holders) <= 1

\* lines 53 / 232: `if Arc::strong_count(..) <= 2`
IsLastSender(holders) == StrongCount(holders) <= 2

SenderDropCheck(p) ==
    /\ pc[p] = "d_check"
    /\ pc' = [pc EXCEPT ![p] = IF IsLastSender(arcs) THEN "d_drain" ELSE "d_arc"]
    /\ UNCHANGED <<kind, cap, inSched, queue, txInner, rxInner, arcs, wl,
                   swl, lockR, lockS, val, r, nops, parkedIn, lastRet,
                   pushed, delivered, okOrder>>

\* lines 54-58 / 233-238: lock the list, pop and wake every handle.
SenderDropDrain(p) ==
    /\ pc[p] = "d_drain"
    /\ lockR = {}
    /\ LET w == DrainWake(wl, pc) IN
        /\ wl' = w.l
        /\ pc' = [w.pc EXCEPT ![p] = "d_arc"]
    /\ UNCHANGED <<kind, cap, inSched, queue, txInner, rxInner, arcs, swl,
                   lockR, lockS, val, r, nops, parkedIn, lastRet, pushed,
                   delivered, okOrder>>

\* After drop() returns the fields go: the Arc's count falls by one.
SenderDropArc(p) ==
    /\ pc[p] = "d_arc"
    /\ arcs' = arcs \ {p}
    /\ pc' = [pc EXCEPT ![p] = "dropped"]
    /\ UNCHANGED <<kind, cap, inSched, queue, txInner, rxInner, wl, swl,
                   lockR, lockS, val, r, nops, parkedIn, lastRet, pushed,
                   delivered, okOrder>>

\* ------------------------------------------- Receiver / SyncReceiver
\* lines 72-73 / 253-254, 265: try_recv.  The unbounded receiver returns the
\* primitive's result; the bounded one goes on to wake a producer after Ok.
TryRecv ==
    /\ CanRecv
    /\ nops' = [nops EXCEPT ![Rx] = @ + 1]
    /\ \E s \in InnerTryRecv(kind, queue, txInner) :
        /\ queue' = s.q
        /\ IF s.res.k = "Ok" /\ kind = "sync"
            THEN /\ pc' = [pc EXCEPT ![Rx] = "tr_wake"]
                 /\ r' = [r EXCEPT ![Rx] = s.res]
                 /\ UNCHANGED <<lastRet, parkedIn, delivered>>
            ELSE ReturnRecv(pc, "try_recv", s.res)
    /\ UNCHANGED <<kind, cap, inSched, txInner, rxInner, arcs, wl, swl,
                   lockR, lockS, val, pushed, okOrder>>

\* try_recv of the bounded receiver without lines 256-259: the value is
\* returned and send_wait_list is left alone.
TryRecvNoWake ==
    /\ pc[Rx] = "tr_wake"
    /\ lockS = {}
    /\ ReturnRecv(pc, "try_recv", r[Rx])
    /\ UNCHANGED <<kind, cap, inSched, queue, txInner, rxInner, arcs, wl,
                   swl, lockR, lockS, val, nops, pushed, okOrder>>

\* lines 256-263: lock send_wait_list, pop and wake one producer, Ok(t).
TryRecvWake ==
    /\ pc[Rx] = "tr_wake"
    /\ lockS = {}
    /\ LET w == PopWake(swl, pc) IN
        /\ swl' = w.l
        /\ ReturnRecv(w.pc, "try_recv", r[Rx])
    /\ UNCHANGED <<kind, cap, inSched, queue, txInner, rxInner, arcs, wl,
                   lockR, lockS, val, nops, pushed, okOrder>>

\* lines 79-84 / 271-277: one round's first attempt.  Ok and Disconnected
\* return, Empty goes on to park_with.
RecvAttempt ==
    \E s \in InnerTryRecv(kind, queue, txInner) :
        /\ queue' = s.q
        /\ CASE s.res.k = "Ok" /\ kind = "sync" ->
                /\ pc' = [pc EXCEPT ![Rx] = "r_wake1"]
                /\ r' = [r EXCEPT ![Rx] = s.res]
                /\ UNCHANGED <<lastRet, parkedIn, delivered>>
             [] s.res.k = "Empty" ->
                /\ pc' = [pc EXCEPT ![Rx] = "r_setup"]
                /\ r' = [r EXCEPT ![Rx] = s.res]
                /\ UNCHANGED <<lastRet, parkedIn, delivered>>
             [] OTHER ->
                ReturnRecv(pc, "recv", s.res)

\* recv runs the parking loop on any thread.
RecvCallAnyThread ==
    /\ CanRecv
    /\ nops' = [nops EXCEPT ![Rx] = @ + 1]
    /\ RecvAttempt
    /\ UNCHANGED <<kind, cap, inSched, txInner, rxInner, arcs, wl, swl,
                   lockR, lockS, val, pushed, okOrder>>

\* lines 76-77 / 269-270: recv is called on a thread with a processor.
RecvCall ==
    /\ CanRecv /\ inSched[Rx]
    /\ nops' = [nops EXCEPT ![Rx] = @ + 1]
    /\ RecvAttempt
    /\ UNCHANGED <<kind, cap, inSched, txInner, rxInner, arcs, wl, swl,
                   lockR, lockS, val, pushed, okOrder>>

\* The loop also runs again after the setup routine received a value.
RecvLoopDropsOk ==
    /\ pc[Rx] = "resumed" /\ r[Rx].k \in {"Empty", "Ok"}
    /\ RecvAttempt
    /\ UNCHANGED <<kind, cap, inSched, txInner, rxInner, arcs, wl, swl,
                   lockR, lockS, val, nops, pushed, okOrder>>

\* lines 110 / 296, then 77-84: resumed with Empty, the loop runs again.
RecvLoop ==
    /\ pc[Rx] = "resumed" /\ r[Rx].k = "Empty"
    /\ RecvAttempt
    /\ UNCHANGED <<kind, cap, inSched, txInner, rxInner, arcs, wl, swl,
                   lockR, lockS, val, nops, pushed, okOrder>>

\* lines 256-263 inside the first attempt of SyncReceiver::recv.
RecvWake1 ==
    /\ pc[Rx] = "r_wake1"
    /\ lockS = {}
    /\ LET w == PopWake(swl, pc) IN
        /\ swl' = w.l
        /\ ReturnRecv(w.pc, "recv", r[Rx])
    /\ UNCHANGED <<kind, cap, inSched, queue, txInner, rxInner, arcs, wl,
                   lockR, lockS, val, nops, pushed, okOrder>>

\* lines 93 / 282: `r = self.try_recv()` under the wait list's lock.
SetupRetry(knd, q, senders) == InnerTryRecv(knd, q, senders)

\* The handle is pushed whatever the second attempt returned.
RecvSetupKeepsHandle ==
    /\ pc[Rx] = "r_setup"
    /\ lockR = {}
    /\ \E s \in SetupRetry(kind, queue, txInner) :
        /\ queue' = s.q
        /\ r' = [r EXCEPT ![Rx] = s.res]
        /\ wl' = Append(wl, Rx)
        /\ CASE s.res.k = "Empty" ->
                /\ parkedIn' = [parkedIn EXCEPT ![Rx] = TRUE]
                /\ pc' = [pc EXCEPT ![Rx] = "parked"]
                /\ UNCHANGED lockR
             [] s.res.k = "Ok" /\ kind = "sync" ->
                /\ pc' = [pc EXCEPT ![Rx] = "r_wake2"]
                /\ lockR' = {Rx}
                /\ UNCHANGED parkedIn
             [] OTHER ->
                /\ pc' = Ready(pc, Rx)
                /\ UNCHANGED <<lockR, parkedIn>>
    /\ UNCHANGED <<kind, cap, inSched, txInner, rxInner, arcs, swl, lockS,
                   val, nops, lastRet, pushed, delivered, okOrder>>

\* lines 87-104 / 279-291: the setup routine of park_with locks the wait
\* list and makes the second attempt.  Empty: the handle is pushed, the lock
\* released, the coroutine stays parked.  Otherwise the coroutine is made
\* ready again; the bounded receiver first wakes a producer (its try_recv
\* locks send_wait_list) while it still holds recv_wait_list.
RecvSetup ==
    /\ pc[Rx] = "r_setup"
    /\ lockR = {}
    /\ \E s \in SetupRetry(kind, queue, txInner) :
        /\ queue' = s.q
        /\ r' = [r EXCEPT ![Rx] = s.res]
        /\ CASE s.res.k = "Empty" ->
                /\ wl' = Append(wl, Rx)
                /\ parkedIn' = [parkedIn EXCEPT ![Rx] = TRUE]
                /\ pc' = [pc EXCEPT ![Rx] = "parked"]
                /\ UNCHANGED lockR
             [] s.res.k = "Ok" /\ kind = "sync" ->
                /\ pc' = [pc EXCEPT ![Rx] = "r_wake2"]
                /\ lockR' = {Rx}
                /\ UNCHANGED <<wl, parkedIn>>
             [] OTHER ->
                /\ pc' = Ready(pc, Rx)
                /\ UNCHANGED <<wl, lockR, parkedIn>>
    /\ UNCHANGED <<kind, cap, inSched, txInner, rxInner, arcs, swl, lockS,
                   val, nops, lastRet, pushed, delivered, okOrder>>

\* lines 256-263 inside the setup routine: send_wait_list is locked while
\* recv_wait_list is held; then p.ready(coro) and both locks are released.
RecvSetupWake ==
    /\ pc[Rx] = "r_wake2"
    /\ lockS = {}
    /\ LET w == PopWake(swl, pc) IN
        /\ swl' = w.l
        /\ pc' = Ready(w.pc, Rx)
    /\ lockR' = {}
    /\ UNCHANGED <<kind, cap, inSched, queue, txInner, rxInner, arcs, wl,
                   lockS, val, r, nops, parkedIn, lastRet, pushed, delivered,
                   okOrder>>

\* Whatever the setup routine stored is returned, Empty included.
RecvResumeLeaksEmpty ==
    /\ pc[Rx] = "resumed"
    /\ ReturnRecv(pc, "recv", r[Rx])
    /\ UNCHANGED <<kind, cap, inSched, queue, txInner, rxInner, arcs, wl,
                   swl, lockR, lockS, val, nops, pushed, okOrder>>

\* lines 108-111 / 294-297: after park_with, Ok and Disconnected return.
RecvResume ==
    /\ pc[Rx] = "resumed" /\ r[Rx].k \in {"Ok", "Disc"}
    /\ ReturnRecv(pc, "recv", r[Rx])
    /\ UNCHANGED <<kind, cap, inSched, queue, txInner, rxInner, arcs, wl,
                   swl, lockR, lockS, val, nops, pushed, okOrder>>

\* lines 77, 116 / 270, 302: recv is called on a thread without a processor.
RecvNativeCall ==
    /\ CanRecv /\ ~inSched[Rx]
    /\ nops' = [nops EXCEPT ![Rx] = @ + 1]
    /\ pc' = [pc EXCEPT ![Rx] = "r_native"]
    /\ UNCHANGED <<kind, cap, inSched, queue, txInner, rxInner, arcs, wl,
                   swl, lockR, lockS, val, r, parkedIn, lastRet, pushed,
                   delivered, okOrder>>

\* lines 116 / 302, 310: the primitive's blocking recv returns.
RecvNative ==
    /\ pc[Rx] = "r_native"
    /\ InnerRecvReady(queue, txInner)
    /\ LET s == InnerRecv(queue, txInner) IN
        /\ queue' = s.q
        /\ IF s.res.k = "Ok" /\ kind = "sync"
            THEN /\ pc' = [pc EXCEPT ![Rx] = "r_wake3"]
                 /\ r' = [r EXCEPT ![Rx] = s.res]
                 /\ UNCHANGED <<lastRet, parkedIn, delivered>>
            ELSE ReturnRecv(pc, "recv", s.res)
    /\ UNCHANGED <<kind, cap, inSched, txInner, rxInner, arcs, wl, swl,
                   lockR, lockS, val, nops, pushed, okOrder>>

\* lines 304-308: the blocking fallback wakes one producer too.
RecvNativeWake ==
    /\ pc[Rx] = "r_wake3"
    /\ lockS = {}
    /\ LET w == PopWake(swl, pc) IN
        /\ swl' = w.l
        /\ ReturnRecv(w.pc, "recv", r[Rx])
    /\ UNCHANGED <<kind, cap, inSched, queue, txInner, rxInner, arcs, wl,
                   lockR, lockS, val, nops, pushed, okOrder>>

\* --------------------------------- dropping Receiver / SyncReceiver
\* The primitive's receiver goes first (line 319; for Receiver, which has
\* no Drop impl, `inner` is the first field, line 64).
ReceiverDropTake ==
    /\ pc[Rx] = "idle" /\ rxInner
    /\ rxInner' = FALSE
    /\ pc' = [pc EXCEPT ![Rx] = IF kind = "sync" THEN "rd_drain" ELSE "rd_arc"]
    /\ UNCHANGED <<kind, cap, inSched, queue, txInner, arcs, wl, swl, lockR,
                   lockS, val, r, nops, parkedIn, lastRet, pushed, delivered,
                   okOrder>>

\* lines 325-330: lock send_wait_list, pop and wake every producer.
SyncReceiverDropDrain ==
    /\ pc[Rx] = "rd_drain"
    /\ lockS = {}
    /\ LET w == DrainWake(swl, pc) IN
        /\ swl' = w.l
        /\ pc' = [w.pc EXCEPT ![Rx] = "rd_arc"]
    /\ UNCHANGED <<kind, cap, inSched, queue, txInner, rxInner, arcs, wl,
                   lockR, lockS, val, r, nops, parkedIn, lastRet, pushed,
                   delivered, okOrder>>

\* The wait lists' Arcs are released last.
ReceiverDropArc ==
    /\ pc[Rx] = "rd_arc"
    /\ arcs' = arcs \ {Rx}
    /\ pc' = [pc EXCEPT ![Rx] = "dropped"]
    /\ UNCHANGED <<kind, cap, inSched, queue, txInner, rxInner, wl, swl,
                   lockR, lockS, val, r, nops, parkedIn, lastRet, pushed,
                   delivered, okOrder>>

\* ------------------------------------------------------- SyncSender
\* try_send pops and wakes a consumer handle whatever the primitive said.
TrySendWakesAlways(p) ==
    /\ kind = "sync" /\ CanSend(p)
    /\ nops' = [nops EXCEPT ![p] = @ + 1]
    /\ LET t == ValueOf(p, nops[p] + 1)
           s == InnerTrySend(queue, cap, rxInner, t)
           w == PopWake(wl, pc) IN
        /\ val' = [val EXCEPT ![p] = t]
        /\ queue' = s.q
        /\ pushed' = IF s.res.k = "Ok" THEN Append(pushed, t) ELSE pushed
        /\ wl' = w.l
        /\ ReturnSend(p, w.pc, "try_send", s.res, t)
    /\ UNCHANGED <<kind, cap, inSched, txInner, rxInner, arcs, swl, lockR,
                   lockS, delivered>>

\* lines 149-150, 162: try_send(t) with a fresh value; an Err of the
\* primitive's try_send is returned as is.
TrySend(p) ==
    /\ kind = "sync" /\ CanSend(p)
    /\ nops' = [nops EXCEPT ![p] = @ + 1]
    /\ LET t == ValueOf(p, nops[p] + 1)
           s == InnerTrySend(queue, cap, rxInner, t) IN
        /\ val' = [val EXCEPT ![p] = t]
        /\ queue' = s.q
        /\ pushed' = IF s.res.k = "Ok" THEN Append(pushed, t) ELSE pushed
        /\ IF s.res.k = "Ok"
            THEN /\ pc' = [pc EXCEPT ![p] = "t_wake"]
                 /\ r' = [r EXCEPT ![p] = s.res]
                 /\ UNCHANGED <<lastRet, parkedIn, okOrder>>
            ELSE ReturnSend(p, pc, "try_send", s.res, t)
    /\ UNCHANGED <<kind, cap, inSched, txInner, rxInner, arcs, wl, swl,
                   lockR, lockS, delivered>>

\* lines 152-160: lock recv_wait_list, pop and wake one handle, Ok.
TrySendWake(p) ==
    /\ pc[p] = "t_wake"
    /\ lockR = {}
    /\ LET w == PopWake(wl, pc) IN
        /\ wl' = w.l
        /\ ReturnSend(p, w.pc, "try_send", Ok(0), Arg(p))
    /\ UNCHANGED <<kind, cap, inSched, queue, txInner, rxInner, arcs, swl,
                   lockR, lockS, val, nops, pushed, delivered>>

\* lines 168-176: one round's first attempt with the value t.  Ok and
\* Disconnected(e) return, Full(t_) hands the value back (t = t_) and goes
\* on to park_with (r = Ok(()), line 178).
SyncSendAttempt(p, t) ==
    LET s == InnerTrySend(queue, cap, rxInner, t) IN
        /\ queue' = s.q
        /\ pushed' = IF s.res.k = "Ok" THEN Append(pushed, t) ELSE pushed
        /\ CASE s.res.k = "Ok" ->
                /\ pc' = [pc EXCEPT ![p] = "s_wake1"]
                /\ r' = [r EXCEPT ![p] = s.res]
                /\ val' = [val EXCEPT ![p] = t]
                /\ UNCHANGED <<lastRet, parkedIn, okOrder>>
             [] s.res.k = "Disc" ->
                /\ ReturnSend(p, pc, "send", s.res, Arg(p)')
                /\ val' = [val EXCEPT ![p] = t]
             [] s.res.k = "Full" ->
                /\ val' = [val EXCEPT ![p] = s.res.v]
                /\ pc' = [pc EXCEPT ![p] = "s_setup"]
                /\ r' = [r EXCEPT ![p] = Ok(0)]
                /\ UNCHANGED <<lastRet, parkedIn, okOrder>>

\* lines 166-167: send(t) with a fresh value on a thread with a processor.
SyncSendCall(p) ==
    /\ kind = "sync" /\ CanSend(p) /\ inSched[p]
    /\ nops' = [nops EXCEPT ![p] = @ + 1]
    /\ SyncSendAttempt(p, ValueOf(p, nops[p] + 1))
    /\ UNCHANGED <<kind, cap, inSched, txInner, rxInner, arcs, wl, swl,
                   lockR, lockS, delivered>>

\* The loop also runs again after the setup routine's try_send succeeded.
SyncSendLoopOnOk(p) ==
    /\ p \in Prod /\ pc[p] = "resumed" /\ r[p].k \in {"Full", "Ok"}
    /\ UNCHANGED nops
    /\ SyncSendAttempt(p, val[p])
    /\ UNCHANGED <<kind, cap, inSched, txInner, rxInner, arcs, wl, swl,
                   lockR, lockS, delivered>>

\* lines 201-203, then 167-176: resumed with Full(t_), the loop runs again.
SyncSendLoop(p) ==
    /\ p \in Prod /\ pc[p] = "resumed" /\ r[p].k = "Full"
    /\ UNCHANGED nops
    /\ SyncSendAttempt(p, r[p].v)
    /\ UNCHANGED <<kind, cap, inSched, txInner, rxInner, arcs, wl, swl,
                   lockR, lockS, delivered>>

\* lines 152-160 inside the first attempt of SyncSender::send.
SyncSendWake1(p) ==
    /\ pc[p] = "s_wake1"
    /\ lockR = {}
    /\ LET w == PopWake(wl, pc) IN
        /\ wl' = w.l
        /\ ReturnSend(p, w.pc, "send", Ok(0), Arg(p))
    /\ UNCHANGED <<kind, cap, inSched, queue, txInner, rxInner, arcs, swl,
                   lockR, lockS, val, nops, pushed, delivered>>

\* The setup routine without line 183: the handle is pushed at once.
SyncSendSetupNoRetry(p) ==
    /\ pc[p] = "s_setup"
    /\ lockS = {}
    /\ swl' = Append(swl, p)
    /\ parkedIn' = [parkedIn EXCEPT ![p] = TRUE]
    /\ pc' = [pc EXCEPT ![p] = "parked"]
    /\ UNCHANGED <<kind, cap, inSched, queue, txInner, rxInner, arcs, wl,
                   lockR, lockS, val, r, nops, lastRet, pushed, delivered,
                   okOrder>>

\* lines 181-194: the setup routine of park_with locks send_wait_list and
\* makes the second attempt with t.  Full: the handle is pushed, the lock
\* released, the coroutine stays parked.  Ok: try_send goes on to lock
\* recv_wait_list while send_wait_list is held.  Disconnected: the coroutine
\* is made ready again.  The result is stored through r_ptr.
SyncSendSetup(p) ==
    /\ pc[p] = "s_setup"
    /\ lockS = {}
    /\ LET s == InnerTrySend(queue, cap, rxInner, val[p]) IN
        /\ queue' = s.q
        /\ pushed' = IF s.res.k = "Ok" THEN Append(pushed, val[p]) ELSE pushed
        /\ r' = [r EXCEPT ![p] = s.res]
        /\ CASE s.res.k = "Full" ->
                /\ swl' = Append(swl, p)
                /\ parkedIn' = [parkedIn EXCEPT ![p] = TRUE]
                /\ pc' = [pc EXCEPT ![p] = "parked"]
                /\ UNCHANGED lockS
             [] s.res.k = "Ok" ->
                /\ pc' = [pc EXCEPT ![p] = "s_wake2"]
                /\ lockS' = {p}
                /\ UNCHANGED <<swl, parkedIn>>
             [] s.res.k = "Disc" ->
                /\ pc' = Ready(pc, p)
                /\ UNCHANGED <<swl, lockS, parkedIn>>
    /\ UNCHANGED <<kind, cap, inSched, txInner, rxInner, arcs, wl, lockR,
                   val, nops, lastRet, delivered, okOrder>>

\* lines 152-160 inside the setup routine, then p.ready(coro) (line 190)
\* and the release of send_wait_list.
SyncSendSetupWake(p) ==
    /\ pc[p] = "s_wake2"
    /\ lockR = {}
    /\ LET w == PopWake(wl, pc) IN
        /\ wl' = w.l
        /\ pc' = Ready(w.pc, p)
    /\ lockS' = {}
    /\ UNCHANGED <<kind, cap, inSched, queue, txInner, rxInner, arcs, swl,
                   lockR, val, r, nops, parkedIn, lastRet, pushed, delivered,
                   okOrder>>

\* The setup routine's result is not stored (`*r_ptr = r` missing): after
\* park_with r is still the Ok(()) of line 178 unless the retry disconnected.
SyncSendResumeStaleOk(p) ==
    /\ p \in Prod /\ pc[p] = "resumed"
    /\ ReturnSend(p, pc, "send", IF r[p].k = "Disc" THEN r[p] ELSE Ok(0), Arg(p))
    /\ UNCHANGED <<kind, cap, inSched, queue, txInner, rxInner, arcs, wl,
                   swl, lockR, lockS, val, nops, pushed, delivered>>

\* lines 198-200: after park_with, Ok and Disconnected(e) return.
SyncSendResume(p) ==
    /\ p \in Prod /\ pc[p] = "resumed" /\ r[p].k \in {"Ok", "Disc"}
    /\ ReturnSend(p, pc, "send", r[p], Arg(p))
    /\ UNCHANGED <<kind, cap, inSched, queue, txInner, rxInner, arcs, wl,
                   swl, lockR, lockS, val, nops, pushed, delivered>>

\* lines 166-167, 207: send(t) with a fresh value on a thread without a
\* processor.
SyncSendNativeCall(p) ==
    /\ kind = "sync" /\ CanSend(p) /\ ~inSched[p]
    /\ nops' = [nops EXCEPT ![p] = @ + 1]
    /\ val' = [val EXCEPT ![p] = ValueOf(p, nops[p] + 1)]
    /\ pc' = [pc EXCEPT ![p] = "s_native"]
    /\ UNCHANGED <<kind, cap, inSched, queue, txInner, rxInner, arcs, wl,
                   swl, lockR, lockS, r, parkedIn, lastRet, pushed,
                   delivered, okOrder>>

\* lines 207, 216: the primitive's blocking send returns; Err as is.
SyncSendNative(p) ==
    /\ pc[p] = "s_native"
    /\ InnerSyncSendReady(queue, cap, rxInner)
    /\ LET s == InnerTrySend(queue, cap, rxInner, val[p]) IN
        /\ queue' = s.q
        /\ pushed' = IF s.res.k = "Ok" THEN Append(pushed, val[p]) ELSE pushed
        /\ IF s.res.k = "Ok"
            THEN /\ pc' = [pc EXCEPT ![p] = "s_wake3"]
                 /\ r' = [r EXCEPT ![p] = s.res]
                 /\ UNCHANGED <<lastRet, parkedIn, okOrder>>
            ELSE ReturnSend(p, pc, "send", s.res, Arg(p))
    /\ UNCHANGED <<kind, cap, inSched, txInner, rxInner, arcs, wl, swl,
                   lockR, lockS, val, nops, delivered>>

\* The blocking fallback without lines 210-213: Ok(()) and no wake.
SyncSendNativeNoWake(p) ==
    /\ pc[p] = "s_wake3"
    /\ lockR = {}
    /\ ReturnSend(p, pc, "send", Ok(0), Arg(p))
    /\ UNCHANGED <<kind, cap, inSched, queue, txInner, rxInner, arcs, wl,
                   swl, lockR, lockS, val, nops, pushed, delivered>>

\* lines 209-214: the blocking fallback wakes one consumer too.
SyncSendNativeWake(p) ==
    /\ pc[p] = "s_wake3"
    /\ lockR = {}
    /\ LET w == PopWake(wl, pc) IN
        /\ wl' = w.l
        /\ ReturnSend(p, w.pc, "send", Ok(0), Arg(p))
    /\ UNCHANGED <<kind, cap, inSched, queue, txInner, rxInner, arcs, swl,
                   lockR, lockS, val, nops, pushed, delivered>>

ProducerStep(p) ==
    \/ SenderSend(p) \/ SenderSendWake(p)
    \/ TrySend(p) \/ TrySendWake(p)
    \/ SyncSendCall(p) \/ SyncSendLoop(p) \/ SyncSendWake1(p)
    \/ SyncSendSetup(p) \/ SyncSendSetupWake(p) \/ SyncSendResume(p)
    \/ SyncSendNativeCall(p) \/ SyncSendNative(p) \/ SyncSendNativeWake(p)
    \/ SenderDropTake(p) \/ SenderDropCheck(p) \/ SenderDropDrain(p)
    \/ SenderDropArc(p)

ReceiverStep ==
    \/ TryRecv \/ TryRecvWake
    \/ RecvCall \/ RecvLoop \/ RecvWake1
    \/ RecvSetup \/ RecvSetupWake \/ RecvResume
    \/ RecvNativeCall \/ RecvNative \/ RecvNativeWake
    \/ ReceiverDropTake \/ SyncReceiverDropDrain \/ ReceiverDropArc

Next == (\E p \in Prod : ProducerStep(p)) \/ ReceiverStep

Spec == Init /\ [][Next]_vars

\* ------------------------------------------------------------ claims
\* The coroutine of process h is suspended with its handle on a wait list.
Parked(h) == pc[h] = "parked"

AllProducersDropped == \A p \in Prod : pc[p] = "dropped"

\* C1 (P2, producer-drop wakeup): once every producer handle has been
\* dropped, in any order and under any interleaving of the drops, a consumer
\* that parked in recv before the drops has been woken; it does not remain
\* parked.
C1_ProducerDropWakes == AllProducersDropped => ~Parked(Rx)

\* Producer p has pushed a value and has yet to pop and wake a consumer.
Waking(p) == pc[p] \in {"u_wake", "t_wake", "s_wake1", "s_wake2", "s_wake3"}

\* Process h's next step takes the lock of recv_wait_list (wait_list).
NeedsR(h) ==
    pc[h] \in {"u_wake", "t_wake", "s_wake1", "s_wake2", "s_wake3",
               "d_drain", "r_setup"}

\* Process h's next step takes the lock of send_wait_list.
NeedsS(h) ==
    pc[h] \in {"tr_wake", "r_wake1", "r_wake2", "r_wake3", "rd_drain",
               "s_setup"}

\* Process h holds one wait list's lock and needs the other, whose holder
\* needs the one h holds: neither runs again.
Stuck(h) ==
    \/ h \in lockS /\ NeedsR(h) /\ \E g \in lockR : NeedsS(g)
    \/ h \in lockR /\ NeedsS(h) /\ \E g \in lockS : NeedsR(g)

\* No consumer is parked beside a value that nobody is about to announce.
NoLostConsumerWakeup ==
    (Parked(Rx) /\ queue # <<>>) => \E p \in Prod : Waking(p)

\* C2 (no lost consumer wakeup): the consumer is never parked on the wait
\* list while the queue holds a value and no producer is between its push
\* and its pop-and-wake; and a recv that raced with a successful send goes
\* on to return the value: it is never left holding it, unable to run.
C2_RacingRecvReturns == NoLostConsumerWakeup /\ ~Stuck(Rx)

\* Producer p's send is between a Full attempt and its return.
InSendProtocol(p) ==
    \/ pc[p] \in {"s_setup", "parked"}
    \/ pc[p] = "resumed" /\ r[p].k \in {"Full", "Disc"}

\* Producer p's send has just returned Disconnected with its value.
SendReturnedDisc(p) ==
    /\ pc[p] = "idle"
    /\ lastRet.p = p /\ lastRet.op = "send"
    /\ lastRet.k = "Disc" /\ lastRet.v = lastRet.t

C3_Drained ==
    (kind = "sync" /\ pc[Rx] \in {"rd_arc", "dropped"}) =>
        swl = <<>> /\ \A p \in Prod : ~Parked(p)

C3_ThenDisconnected ==
    \A p \in Prod :
        (~rxInner /\ InSendProtocol(p)) =>
            \/ InSendProtocol(p)'
            \/ SendReturnedDisc(p)'

\* C3 (P3, consumer-drop wakeup): once the bounded receiver's drop has
\* drained send_wait_list, no producer is parked and the list is empty,
\* however many producers had parked; and a send that was waiting when the
\* receiver went away can only end by returning Disconnected with its value.
C3_ConsumerDropWakes == []C3_Drained /\ [][C3_ThenDisconnected]_vars

\* The receiver's drop has woken two parked producers: one has returned
\* Disconnected already, the other is ready to run.
C3_Witness ==
    /\ kind = "sync" /\ pc[Rx] \in {"rd_arc", "dropped"}
    /\ lastRet.op = "send" /\ lastRet.k = "Disc" /\ lastRet.parked
    /\ \E q \in Prod \ {lastRet.p} :
        pc[q] = "resumed" /\ r[q].k = "Full" /\ parkedIn[q]

\* ------------------------------------------------ sequences of values
NoDup(s) == \A i, j \in 1..Len(s) : s[i] = s[j] => i = j

Count(s, v) == Cardinality({i \in 1..Len(s) : s[i] = v})

\* The position of v in s (s holds v).
Pos(s, v) == CHOOSE i \in 1..Len(s) : s[i] = v

\* The producer whose call carried the value v.
Producer(v) == v \div 10

\* A value the receiver took off the queue and has yet to return.
Inflight == IF r[Rx].k = "Ok" THEN <<r[Rx].v>> ELSE <<>>

\* Every value ever taken off the queue, in order.
Received == delivered \o Inflight

\* The consumer's last call reported the disconnect.
RecvSawDisconnect ==
    lastRet.p = Rx /\ lastRet.op \in {"recv", "try_recv"} /\ lastRet.k = "Disc"

\* C4 as stated: every value whose send returned Ok is received exactly
\* once before the consumer observes Disconnected, and none is received
\* twice.
C4_ExactlyOnceBeforeDisconnect ==
    /\ NoDup(delivered)
    /\ RecvSawDisconnect => Range(okOrder) \subseteq Range(delivered)

\* C4 (P5, exactly-once), amended: no value is pushed or received twice;
\* every value whose send returned Ok is either received or still buffered;
\* on the unbounded channel all of them have been received once the consumer
\* observes Disconnected.
C4_ExactlyOnce ==
    /\ NoDup(pushed) /\ NoDup(delivered)
    /\ Range(okOrder) \subseteq Range(Received \o queue)
    /\ (kind = "chan" /\ RecvSawDisconnect) =>
            Range(okOrder) \subseteq Range(delivered)

\* Values of both producers have been received on the bounded channel and
\* the last send to return had parked on the way.
C4_Witness ==
    /\ kind = "sync" /\ Len(delivered) >= 2
    /\ \E i, j \in 1..Len(delivered) :
        Producer(delivered[i]) # Producer(delivered[j])
    /\ Range(okOrder) \subseteq Range(delivered)
    /\ \E v \in Range(delivered) : Count(okOrder, v) = 1
    /\ lastRet.op = "send" /\ lastRet.k = "Ok" /\ lastRet.parked

\* C5 as stated: the values are received in the order in which their sends
\* completed.
C5_CompletionOrder ==
    \A i, j \in 1..Len(delivered) :
        (/\ i < j
         /\ delivered[i] \in Range(okOrder)
         /\ delivered[j] \in Range(okOrder)) =>
            Pos(okOrder, delivered[i]) < Pos(okOrder, delivered[j])

\* Within s the values of one producer appear in the order of its calls.
ProgramOrder(s) ==
    \A i, j \in 1..Len(s) :
        (i < j /\ Producer(s[i]) = Producer(s[j])) => s[i] < s[j]

C5_PushOrder ==
    /\ Received \o queue = pushed
    /\ ProgramOrder(pushed)
    /\ Range(okOrder) \subseteq Range(pushed)

\* A push goes behind everything pushed before it.
C5_PushBehind ==
    pushed' # pushed =>
        /\ Len(pushed') = Len(pushed) + 1
        /\ pushed' = Append(pushed, pushed'[Len(pushed')])

\* C5 (P1, FIFO), amended: the values are received in the order in which
\* they were pushed onto the queue; that order keeps every producer's
\* program order, and a send that has returned Ok has pushed its value, so
\* it precedes every value pushed later.
C5_Fifo == []C5_PushOrder /\ [][C5_PushBehind]_vars

\* Two values were received in push order although their sends returned in
\* the opposite order.
C5_Witness ==
    /\ Len(delivered) >= 2 /\ Len(okOrder) >= 2
    /\ delivered[1] = okOrder[2] /\ delivered[2] = okOrder[1]

BlockingOp(op) == op \in {"send", "recv"}

\* Process h's blocking call makes an attempt on the primitive in this step.
AttemptsNow(h) ==
    /\ \/ pc[h] \in {"s_setup", "r_setup"}
       \/ pc[h] = "resumed" /\ r[h].k \in {"Full", "Empty"}
    /\ pc'[h] # pc[h]

\* Process h starts a blocking call on a thread with a processor.
StartsIn(h) ==
    /\ nops'[h] = nops[h] + 1 /\ inSched[h]
    /\ ~(pc'[h] = "idle" /\ lastRet'.op \in {"try_send", "try_recv"})

\* Process h observes the disconnect in this step: it returns Disconnected,
\* or its setup routine has stored Disconnected and made it ready.
ObservesDisc(h) ==
    \/ pc'[h] = "idle" /\ lastRet'.p = h /\ BlockingOp(lastRet'.op)
        /\ lastRet'.k = "Disc"
    \/ pc'[h] = "resumed" /\ r'[h].k = "Disc"

C6_NoEmptyNoFull == BlockingOp(lastRet.op) => lastRet.k \in {"Ok", "Disc"}

C6_DiscAtOnce ==
    /\ \A h \in Proc :
        r[h].k = "Disc" =>
            \/ pc'[h] = pc[h] /\ r'[h] = r[h]
            \/ /\ pc'[h] = "idle" /\ lastRet'.p = h
               /\ BlockingOp(lastRet'.op) /\ lastRet'.k = "Disc"
               /\ lastRet'.v = r[h].v
    /\ \A p \in Prod :
        (~rxInner /\ (AttemptsNow(p) \/ StartsIn(p))) => ObservesDisc(p)
    /\ (txInner = {} /\ queue = <<>> /\ (AttemptsNow(Rx) \/ StartsIn(Rx))) =>
            ObservesDisc(Rx)

\* C6 (errors of the blocking calls): a blocking send or recv returns Ok or
\* Disconnected only, never Empty or Full; an attempt made on a disconnected
\* channel yields Disconnected at once, and a stored Disconnected is what the
\* call returns next, with no further attempt.
C6_BlockingErrors == []C6_NoEmptyNoFull /\ [][C6_DiscAtOnce]_vars

\* A send that parked on a full queue returned Disconnected while another
\* producer is ready to return the Disconnected its setup routine stored.
C6_Witness ==
    /\ lastRet.op = "send" /\ lastRet.k = "Disc" /\ lastRet.parked
    /\ \E p \in Prod \ {lastRet.p} : pc[p] = "resumed" /\ r[p].k = "Disc"

\* C7 (SyncSender::send keeps the value): while a send waits, the value is
\* held by the call and is not in the queue; a send that returns Ok has
\* pushed its value exactly once; a send that returns Disconnected hands the
\* very value back and has not pushed it, however often it parked.
C7_SendKeepsValue ==
    /\ \A p \in Prod :
        /\ pc[p] \in {"s_setup", "parked", "s_native"} =>
                val[p] = Arg(p) /\ Count(pushed, Arg(p)) = 0
        /\ (pc[p] = "resumed" /\ r[p].k \in {"Full", "Disc"}) =>
                r[p].v = Arg(p) /\ Count(pushed, Arg(p)) = 0
    /\ (kind = "sync" /\ lastRet.op = "send" /\ lastRet.k = "Ok") =>
            Count(pushed, lastRet.t) = 1
    /\ (kind = "sync" /\ lastRet.op = "send" /\ lastRet.k = "Disc") =>
            lastRet.v = lastRet.t /\ Count(pushed, lastRet.t) = 0

\* A send that parked has returned Ok and its value is the one pushed last,
\* behind a value pushed while it waited.
C7_Witness ==
    /\ kind = "sync" /\ lastRet.op = "send" /\ lastRet.k = "Ok"
    /\ lastRet.parked
    /\ Len(pushed) >= 2 /\ pushed[Len(pushed)] = lastRet.t

\* Process h's call op returns the error k in this step.
Rejected(h, op, k) ==
    /\ nops'[h] = nops[h] + 1 /\ pc'[h] = "idle"
    /\ lastRet'.p = h /\ lastRet'.op = op /\ lastRet'.k = k

\* A rejected call leaves the channel and every other process as they were.
Untouched(h) ==
    /\ UNCHANGED <<queue, wl, swl, lockR, lockS, pushed, delivered, okOrder>>
    /\ UNCHANGED <<txInner, rxInner, arcs>>
    /\ \A q \in Proc \ {h} : pc'[q] = pc[q] /\ r'[q] = r[q]
    /\ pc'[h] = "idle"

C8_Step ==
    /\ \A p \in Prod :
        Rejected(p, "try_send", "Full") =>
            Untouched(p) /\ lastRet'.v = lastRet'.t
    /\ Rejected(Rx, "try_recv", "Empty") => Untouched(Rx)

\* C8 (P4, rejection integrity): a try_send that returns Full hands back the
\* value it was called with and a try_recv that returns Empty takes nothing;
\* neither changes the queue or a wait list nor wakes anybody.
C8_RejectionIntegrity == [][C8_Step]_vars

\* try_send was rejected with Full while a consumer handle was waiting.
C8_Witness ==
    /\ lastRet.op = "try_send" /\ lastRet.k = "Full"
    /\ lastRet.v = lastRet.t /\ Len(queue) = cap
    /\ (swl # <<>> \/ wl # <<>>)

\* Producer p starts a call (send or try_send) in this step.
StartsSend(p) == nops'[p] = nops[p] + 1

\* The receiver is between taking a value and waking a producer.
RecvWaking == pc[Rx] \in {"tr_wake", "r_wake1", "r_wake2", "r_wake3"}

C9_Step ==
    /\ \A p \in Prod :
        \* room: the value is pushed, the call does not park
        /\ (/\ kind = "sync" /\ rxInner /\ Len(queue) < cap
            /\ \/ StartsSend(p) /\ inSched[p]
               \/ AttemptsNow(p)) =>
                /\ queue' = Append(queue, Arg(p)')
                /\ pc'[p] \in {"s_wake1", "s_wake2", "t_wake"}
        \* full: the first attempt goes on to the setup routine, which parks
        /\ (/\ kind = "sync" /\ rxInner /\ Len(queue) = cap
            /\ StartsSend(p) /\ inSched[p] /\ pc'[p] # "idle") =>
                pc'[p] = "s_setup" /\ queue' = queue
        /\ (/\ rxInner /\ Len(queue) = cap
            /\ pc[p] = "s_setup" /\ pc'[p] # pc[p]) =>
                /\ Parked(p)' /\ swl' = Append(swl, p)
                /\ queue' = queue
        /\ (Parked(p)' /\ ~Parked(p)) => Len(queue) = cap
    \* a receive takes the oldest value ...
    /\ Len(queue') < Len(queue) =>
        /\ queue' = Tail(queue)
        /\ Received' = Append(Received, Head(queue))
    \* ... and then wakes exactly the oldest parked producer
    /\ (RecvWaking /\ pc'[Rx] # pc[Rx]) =>
        IF swl = <<>> THEN swl' = swl /\ \A p \in Prod : pc'[p] = pc[p]
        ELSE /\ swl' = Tail(swl)
             /\ pc'[Head(swl)] = "resumed"
             /\ \A p \in Prod \ {Head(swl)} : pc'[p] = pc[p]

\* Only producer 1 makes calls.
OneProducer == \A q \in Prod \ {1} : nops[q] = 0

C9_ScenarioA ==
    (kind = "sync" /\ OneProducer) =>
        \A i \in 1..Len(delivered) :
            i <= Len(okOrder) => delivered[i] = okOrder[i]

\* A send that has pushed its value goes on to return, a recv that has
\* taken a value goes on to return it.
C9_Completes == \A h \in Proc : ~Stuck(h)

\* C9 (backpressure, Scenario A for any capacity): a send finds room and
\* pushes without parking while fewer than cap values are buffered; on a full
\* queue it parks on send_wait_list; a receive takes the oldest value and
\* wakes exactly the producer parked longest; the sends and receives
\* complete; one producer's values are received in its order.
C9_Backpressure ==
    []C9_ScenarioA /\ []C9_Completes /\ [][C9_Step]_vars

\* Process h never enters the parking protocol.
StaysNative(h) ==
    /\ pc[h] \notin {"s_setup", "r_setup", "parked", "resumed",
                     "s_wake1", "s_wake2", "r_wake1", "r_wake2"}
    /\ ~parkedIn[h]
    /\ h \notin Range(wl) \cup Range(swl)

C10_NoParking == \A h \in Proc : ~inSched[h] => StaysNative(h)

C10_NativeResult ==
    /\ (pc[Rx] = "r_native" /\ pc'[Rx] # pc[Rx]) =>
        /\ InnerRecvReady(queue, txInner)
        /\ queue' = InnerRecv(queue, txInner).q
        /\ IF pc'[Rx] = "idle"
            THEN /\ lastRet'.k = InnerRecv(queue, txInner).res.k
                 /\ lastRet'.v = InnerRecv(queue, txInner).res.v
            ELSE r'[Rx] = InnerRecv(queue, txInner).res
    /\ (pc[Rx] = "r_wake3" /\ pc'[Rx] # pc[Rx]) =>
        lastRet'.k = r[Rx].k /\ lastRet'.v = r[Rx].v
    /\ \A p \in Prod :
        (pc[p] = "s_native" /\ pc'[p] # pc[p]) =>
            /\ InnerSyncSendReady(queue, cap, rxInner)
            /\ queue' = InnerTrySend(queue, cap, rxInner, val[p]).q
            /\ pc'[p] = "idle" =>
                /\ lastRet'.k = "Disc" /\ lastRet'.v = val[p]
                /\ ~rxInner

\* C10 (outside a scheduler): a call made on a thread without a processor
\* never parks, never puts a handle on a wait list and returns what the
\* primitive's blocking call returns; it still pops and wakes one handle of
\* the opposite list after Ok.
C10_PlainOutsideScheduler == []C10_NoParking /\ [][C10_NativeResult]_vars

\* Everything ran outside a scheduler on the bounded channel: two values
\* went through and the receiver then saw the disconnect.
C10_Witness ==
    /\ kind = "sync" /\ \A h \in Proc : ~inSched[h]
    /\ Len(delivered) >= 2 /\ delivered = pushed
    /\ lastRet.p = Rx /\ lastRet.op = "recv" /\ lastRet.k = "Disc"

\* ------------------------------------------------ one link of a relay chain
\* lines 493-506 / 533-546: every link of the chain is a channel of its own
\* with a single producer handle (`ltx` is moved into the stage, never
\* cloned), made by channel() or sync_channel(1); all stages are coroutines.
RelayTx == 1

RelayInit ==
    /\ kind \in {"chan", "sync"}
    /\ cap = 1
    /\ inSched = [h \in Proc |-> TRUE]
    /\ queue = <<>>
    /\ txInner = {RelayTx}
    /\ rxInner = TRUE
    /\ arcs = {RelayTx, Rx}
    /\ wl = <<>>
    /\ swl = <<>>
    /\ lockR = {}
    /\ lockS = {}
    /\ pc = [h \in Proc |-> IF h \in {RelayTx, Rx} THEN "idle" ELSE "dropped"]
    /\ val = [p \in Prod |-> 0]
    /\ r = [h \in Proc |-> None]
    /\ nops = [h \in Proc |-> 0]
    /\ parkedIn = [h \in Proc |-> FALSE]
    /\ pushed = <<>>
    /\ lastRet = NoRet
    /\ delivered = <<>>
    /\ okOrder = <<>>

\* lines 500-503 / 540-543: `match rx.recv() { Ok(v) => v, Err(..) => break }`
\* the stage stops receiving once recv has returned an error.
RelayExited == lastRet.p = Rx /\ lastRet.op = "recv" /\ lastRet.k = "Disc"

\* lines 499-505 / 539-545: the downstream stage loops on recv.
RelayRecvStep ==
    \/ ~RelayExited /\ RecvCall
    \/ RecvLoop \/ RecvWake1
    \/ RecvSetup \/ RecvSetupWake \/ RecvResume

\* lines 504 / 544: the upstream stage forwards with send; when it leaves its
\* loop the closure ends and `ltx` is dropped.
RelaySendStep ==
    \/ SenderSend(RelayTx) \/ SenderSendWake(RelayTx)
    \/ SyncSendCall(RelayTx) \/ SyncSendLoop(RelayTx)
    \/ SyncSendWake1(RelayTx) \/ SyncSendSetup(RelayTx)
    \/ SyncSendSetupWake(RelayTx) \/ SyncSendResume(RelayTx)
    \/ SenderDropTake(RelayTx) \/ SenderDropCheck(RelayTx)
    \/ SenderDropDrain(RelayTx) \/ SenderDropArc(RelayTx)

RelayNext == RelaySendStep \/ RelayRecvStep

RelaySpec == RelayInit /\ [][RelayNext]_vars

\* The scheduler keeps running every coroutine that is ready, and the
\* stages' loops go on until they are left.
FairRelaySpec ==
    RelaySpec /\ WF_vars(RelaySendStep) /\ WF_vars(RelayRecvStep)

\* The values the upstream stage has forwarded are exactly the first values
\* it was given, in order, and what has come out of the link is their start.
C11_LinkOrder ==
    /\ \A i \in 1..Len(pushed) : pushed[i] = ValueOf(RelayTx, i)
    /\ Received \o queue = pushed

\* Neither stage of the link is blocked for ever.
C11_LinkRuns == \A h \in Proc : ~Stuck(h)

\* C11 (relay chain, Scenario B): every link of the chain hands its values
\* on as the identical sequence (same values, same order, none repeated) and
\* none goes missing: the stage that forwards and the stage that receives
\* both keep running.
C11_RelayChain == C11_LinkOrder /\ C11_LinkRuns

\* The processes whose parked coroutine is marked ready in this step.
Woken == {h \in Proc : pc[h] = "parked" /\ pc'[h] = "resumed"}

\* Process h takes a step of its own.
Steps(h) == pc'[h] # pc[h] \/ nops'[h] # nops[h]

\* A producer handle's drop drains the consumer-side list in this step.
SenderDrains == \E p \in Prod : pc[p] = "d_drain" /\ Steps(p)

\* The bounded receiver's drop drains the producer-side list in this step.
ReceiverDrains == pc[Rx] = "rd_drain" /\ Steps(Rx)

\* The step pops exactly the front handle of list l and marks it ready.
PopsFront(l, lNext) ==
    /\ l # <<>> /\ lNext = Tail(l)
    /\ Woken = {Head(l)}

C12_Step ==
    \* the consumer-side list shrinks only by a successful send's single pop
    \* of the front handle, or by a drain
    /\ (Len(wl') < Len(wl) /\ ~SenderDrains) =>
        /\ PopsFront(wl, wl')
        /\ \E p \in Prod : Waking(p) /\ Steps(p) /\ r[p].k = "Ok"
    \* the producer-side list likewise
    /\ (Len(swl') < Len(swl) /\ ~ReceiverDrains) =>
        /\ PopsFront(swl, swl')
        /\ RecvWaking /\ Steps(Rx) /\ r[Rx].k = "Ok"
    \* nobody is marked ready without its handle being popped
    /\ (Woken # {} /\ ~SenderDrains /\ ~ReceiverDrains) =>
        \/ PopsFront(wl, wl') /\ swl' = swl
        \/ PopsFront(swl, swl') /\ wl' = wl
    \* a call pops once: after its pop it returns Ok without another attempt
    /\ \A p \in Prod : (Waking(p) /\ Steps(p)) =>
        \/ pc'[p] = "idle"
        \/ pc'[p] = "resumed" /\ r'[p].k = "Ok"
    /\ (RecvWaking /\ Steps(Rx)) =>
        \/ pc'[Rx] = "idle"
        \/ pc'[Rx] = "resumed" /\ r'[Rx].k = "Ok"
    /\ \A h \in Proc : (pc[h] = "resumed" /\ r[h].k = "Ok" /\ Steps(h)) =>
        pc'[h] = "idle" /\ wl' = wl /\ swl' = swl
    \* a call that ends in an error pops nothing
    /\ \A h \in Proc :
        (Steps(h) /\ pc'[h] = "idle" /\ lastRet'.p = h /\ lastRet'.k # "Ok") =>
            wl' = wl /\ swl' = swl /\ Woken = {}

\* C12 (wake-on-progress): a successful send or try_send pops at most one
\* handle, the front one, off the consumer-side wait list and marks it ready;
\* a successful recv or try_recv on the bounded channel does the same on the
\* producer-side list; a call pops once and a failed call never; only an
\* endpoint's drop removes more.
C12_WakeOnProgress == [][C12_Step]_vars

\* Two producers were parked; a receive has returned a value and woken the
\* first of them only.
C12_Witness ==
    /\ kind = "sync" /\ Len(swl) = 1
    /\ lastRet.p = Rx /\ lastRet.k = "Ok"
    /\ \E p \in Prod \ {Head(swl)} :
        pc[p] = "resumed" /\ r[p].k = "Full" /\ parkedIn[p]
    /\ Parked(Head(swl))

\* How often the handle of h's coroutine occurs over both wait lists.
Handles(h) == Count(wl, h) + Count(swl, h)

C13_Once ==
    /\ \A h \in Proc : Handles(h) <= 1
    /\ \A h \in Proc : Handles(h) = 1 <=> Parked(h)
    /\ Range(wl) \subseteq {Rx} /\ Range(swl) \subseteq Prod

C13_OnePopPerWake ==
    \* marking a parked coroutine ready takes its only handle off the lists
    /\ \A h \in Woken : Handles(h) = 1 /\ Handles(h)' = 0
    \* and a step touches no other process than the ones whose handle it pops
    /\ \A h, g \in Proc :
        (h # g /\ pc'[h] # pc[h] /\ pc'[g] # pc[g]) => (h \in Woken \/ g \in Woken)
    \* a coroutine that runs is not marked ready again
    /\ \A h \in Proc :
        (pc[h] # "resumed" /\ pc'[h] = "resumed") =>
            pc[h] \in {"parked", "r_setup", "s_setup", "r_wake2", "s_wake2"}

\* C13 (waiter-handle uniqueness): a coroutine's handle occurs at most once
\* over the wait lists of the channel, and exactly while the coroutine is
\* suspended; marking a parked coroutine ready goes with the pop of that one
\* handle, so no coroutine is marked ready twice for one park.
C13_HandleUniqueness == []C13_Once /\ [][C13_OnePopPerWake]_vars

\* The consumer and a producer are parked at the same time, each with one
\* handle on its own list.
C13_Witness ==
    /\ wl = <<Rx>> /\ Parked(Rx)
    /\ swl # <<>> /\ Parked(Head(swl))

\* Producer p's setup routine holds send_wait_list and its try_send, having
\* pushed, waits for recv_wait_list.
SendSetupWaitsForR(p) == pc[p] = "s_wake2" /\ p \in lockS /\ lockR # {}

\* The receiver's setup routine holds recv_wait_list and its try_recv, having
\* taken a value, waits for send_wait_list.
RecvSetupWaitsForS == pc[Rx] = "r_wake2" /\ Rx \in lockR /\ lockS # {}

\* C14 (deadlock freedom of the two wait-list locks): no state is reachable
\* in which a send's setup routine holds send_wait_list and waits for
\* recv_wait_list while the recv's setup routine holds recv_wait_list and
\* waits for send_wait_list.
C14_NoLockCycle ==
    ~(RecvSetupWaitsForS /\ \E p \in Prod : SendSetupWaitsForR(p))

\* A producer that was made ready, or that is inside the setup routine of
\* its park_with, still has the retry of lines 183 / 198-204 before it.
ProducerRetrying(q) ==
    pc[q] = "s_setup" \/ (pc[q] = "resumed" /\ r[q].k = "Full")

\* The receiver has taken a value and its pop of send_wait_list (lines
\* 256-263) is still to come, or a producer is on its way to the free slot.
ProducerWakePending == RecvWaking \/ \E q \in Prod : ProducerRetrying(q)

\* C15: no lost wakeup on the producer side.  In every reachable state, a
\* producer parked on send_wait_list while the queue has a free slot and the
\* receiver is alive has a wake pending: the receiver is about to pop the
\* list, or a producer already made ready is about to retry.  In particular
\* no state in which every coroutine is idle, parked or dropped has a parked
\* producer next to a free slot.
C15_NoLostProducerWakeup ==
    \A p \in Prod :
        (Parked(p) /\ rxInner /\ Len(queue) < cap) => ProducerWakePending

\* C15's case: two producers are parked on a full queue, the receiver takes
\* a value and wakes the first; the second is still parked beside the free
\* slot while the first is about to retry.
C15_Witness ==
    /\ kind = "sync" /\ rxInner /\ Len(queue) < cap
    /\ ~RecvWaking
    /\ \E p, q \in Prod :
        /\ Parked(p) /\ swl = <<p>>
        /\ pc[q] = "resumed" /\ r[q].k = "Full" /\ parkedIn[q]

\* The drop of handle h has passed `self.inner.take()` (lines 47 / 225 /
\* 319) and has not yet left drop().
InDrop(h) ==
    IF h = Rx THEN pc[Rx] \in {"rd_drain", "rd_arc"}
    ELSE pc[h] \in {"d_check", "d_drain", "d_arc"}

\* While a drop reads the share count or drains, its half of the primitive
\* is already released and its Arc on the wait list is still held.
C16_ReleasedFirst ==
    /\ \A p \in Prod : InDrop(p) => p \notin txInner /\ p \in arcs
    /\ InDrop(Rx) => ~rxInner /\ Rx \in arcs

\* h starts waiting in this step.
Parks(h) == pc[h] # "parked" /\ pc'[h] = "parked"

C16_ForcedWake ==
    \* a released half stays released
    /\ txInner' \subseteq txInner
    /\ rxInner' => rxInner
    \* a drain that wakes a waiter runs after the disconnect is visible
    /\ (SenderDrains /\ Rx \in Woken) => txInner = {}
    /\ (ReceiverDrains /\ Woken # {}) => ~rxInner
    \* the woken consumer's next attempt yields a buffered value or
    \* Disconnected
    /\ (pc[Rx] = "resumed" /\ r[Rx].k = "Empty" /\ txInner = {} /\ Steps(Rx)) =>
            /\ pc'[Rx] \in {"idle", "r_wake1"}
            /\ pc'[Rx] = "r_wake1" => r'[Rx].k = "Ok"
            /\ pc'[Rx] = "idle" =>
                    lastRet'.p = Rx /\ lastRet'.k \in {"Ok", "Disc"}
    \* the woken producer's next attempt yields Disconnected with its value
    /\ \A p \in Prod :
        (pc[p] = "resumed" /\ r[p].k = "Full" /\ ~rxInner /\ Steps(p)) =>
            /\ pc'[p] = "idle"
            /\ lastRet'.p = p /\ lastRet'.k = "Disc" /\ lastRet'.v = r[p].v
    \* nobody parks on a disconnected channel
    /\ txInner = {} => ~Parks(Rx)
    /\ ~rxInner => \A p \in Prod : ~Parks(p)

\* C16: drop ordering.  Every endpoint drop releases its half of the
\* primitive before it reads the share count and before it drains a wait
\* list; a waiter woken by a drain therefore sees Disconnected (a consumer
\* possibly a buffered value first) on its next attempt and never parks
\* again.
C16_DropOrdering == []C16_ReleasedFirst /\ [][C16_ForcedWake]_vars

\* C16's case: the last producer's drop has just drained the wait list and
\* woken the parked consumer, which is about to retry on an empty queue.
C16_Witness ==
    /\ pc[Rx] = "resumed" /\ r[Rx].k = "Empty" /\ parkedIn[Rx]
    /\ txInner = {} /\ queue = <<>>
    /\ \E p \in Prod : pc[p] = "d_arc"

\* The result the setup routine stored for h asks for a wait: Empty for the
\* receiver, Full for a producer.
MustWait(h, res) == res.k = (IF h = Rx THEN "Empty" ELSE "Full")

\* The wait list h parks on.
ListOf(h, w, s) == IF h = Rx THEN w ELSE s

\* h is inside the setup routine, before the retry or inside the retry's
\* wake of the other side.
InSetup(h) == pc[h] \in {"r_setup", "s_setup"}
InSetupWake(h) == pc[h] \in {"r_wake2", "s_wake2"}

C17_HandleIffWait ==
    \A h \in Proc :
        /\ Parked(h) => MustWait(h, r[h]) /\ Handles(h) = 1
        /\ InSetupWake(h) => r[h].k = "Ok" /\ Handles(h) = 0
        /\ pc[h] = "resumed" => Handles(h) = 0

C17_SetupStep ==
    \A h \in Proc :
        \* the retry under the lock: push the handle iff Empty / Full
        /\ (InSetup(h) /\ Steps(h)) =>
            /\ MustWait(h, r'[h]) <=>
                    ListOf(h, wl', swl') = Append(ListOf(h, wl, swl), h)
            /\ MustWait(h, r'[h]) => Parked(h)'
            /\ ~MustWait(h, r'[h]) =>
                    /\ r'[h].k \in {"Ok", "Disc"}
                    /\ ListOf(h, wl', swl') = ListOf(h, wl, swl)
                    /\ pc'[h] = "resumed" \/ InSetupWake(h)'
                    /\ InSetupWake(h)' => r'[h].k = "Ok"
        \* the rest of a successful retry keeps the result and marks ready
        /\ (InSetupWake(h) /\ Steps(h)) =>
            /\ pc'[h] = "resumed" /\ r'[h] = r[h]
            /\ queue' = queue /\ pushed' = pushed
        \* after park_with the stored result is returned, nothing is retried
        /\ (pc[h] = "resumed" /\ r[h].k \in {"Ok", "Disc"} /\ Steps(h)) =>
            /\ pc'[h] = "idle"
            /\ lastRet'.p = h /\ lastRet'.k = r[h].k /\ lastRet'.v = r[h].v
            /\ lastRet'.op \in {"send", "recv"}
            /\ queue' = queue /\ pushed' = pushed

\* C17: in the setup routine of park_with (Receiver::recv, SyncReceiver::recv,
\* SyncSender::send) the handle is pushed onto the wait list if and only if
\* the retry under the lock returned Empty / Full.  After any other result
\* the coroutine is made ready, its handle is in no wait list, and the call
\* returns that result without touching the queue again.
C17_ParkingSetup == []C17_HandleIffWait /\ [][C17_SetupStep]_vars

\* C17's case: one producer's retry found the queue full and left its handle
\* on send_wait_list; another producer's retry succeeded, and it was made
\* ready without ever being on the list.
C17_Witness ==
    \E p, q \in Prod :
        /\ pc[p] = "resumed" /\ r[p].k = "Ok" /\ ~parkedIn[p]
        /\ Parked(q) /\ r[q].k = "Full" /\ swl = <<q>>

\* h makes a call's wake step on a thread without a processor: the pop after
\* Sender::send (lines 33-36), after the blocking send (lines 209-213) or
\* after the blocking recv (lines 304-307).
NativeWake(h) ==
    /\ ~inSched[h]
    /\ pc[h] \in {"u_wake", "s_wake3", "r_wake3"}
    /\ Steps(h)

\* The consumer was parked, has been made ready and makes its next attempt.
WokenRecvRetries ==
    pc[Rx] = "resumed" /\ r[Rx].k = "Empty" /\ parkedIn[Rx] /\ Steps(Rx)

\* That attempt takes the value at the front of the queue.
TakesFront ==
    /\ queue # <<>> /\ queue' = Tail(queue)
    /\ \/ pc'[Rx] = "r_wake1" /\ r'[Rx] = Ok(Head(queue))
       \/ /\ pc'[Rx] = "idle" /\ lastRet'.p = Rx
          /\ lastRet'.k = "Ok" /\ lastRet'.v = Head(queue)

\* The native call pops the front handle of the other side's wait list,
\* makes it ready and returns Ok.
C18_NativePops ==
    /\ \A p \in Prod : NativeWake(p) =>
        /\ wl # <<>> => PopsFront(wl, wl')
        /\ pc'[p] = "idle" /\ lastRet'.p = p /\ lastRet'.k = "Ok"
    /\ NativeWake(Rx) =>
        /\ swl # <<>> => PopsFront(swl, swl')
        /\ pc'[Rx] = "idle" /\ lastRet'.p = Rx /\ lastRet'.k = "Ok"

\* A value buffered beside a parked consumer has its wake still to come: the
\* plain thread that pushed it is between its push and its pop.
C18_WakeToCome ==
    (Parked(Rx) /\ queue # <<>> /\ \A p \in Prod : ~inSched[p]) =>
        \E p \in Prod : pc[p] \in {"u_wake", "t_wake", "s_wake3"}

\* C18 as stated: the consumer woken by a send from a plain thread returns
\* the sent value from its recv, whatever happens to the sender in between.
C18_RecvReturnsSent ==
    [][(WokenRecvRetries /\ queue # <<>> /\ \A p \in Prod : ~inSched[p])
            => TakesFront]_vars

\* C18, amended: a send from a plain thread (either kind) pops and makes
\* ready the consumer parked in recv, a recv from a plain thread on the
\* bounded channel pops and makes ready one parked producer; no value stays
\* buffered beside a parked consumer without a wake to come, and the woken
\* consumer's recv returns the buffered value, except that on the bounded
\* channel the attempt may report Disconnected instead once every SyncSender
\* is gone.
C18_NativeWakes ==
    /\ []C18_WakeToCome
    /\ [][C18_NativePops]_vars
    /\ [][(WokenRecvRetries /\ queue # <<>> /\ (kind = "chan" \/ txInner # {})
            /\ \A p \in Prod : ~inSched[p]) => TakesFront]_vars

\* C18's case: on the bounded channel a consumer coroutine that had parked
\* in recv has returned the value a plain thread sent.
C18_Witness ==
    /\ kind = "sync" /\ inSched[Rx] /\ \A p \in Prod : ~inSched[p]
    /\ lastRet.p = Rx /\ lastRet.op = "recv" /\ lastRet.parked
    /\ lastRet.k = "Ok" /\ delivered = pushed /\ delivered # <<>>

\* The upstream stage has left its loop and its sender is gone (the closure
\* of lines 498-506 has ended).
UpstreamGone == pc[RelayTx] = "dropped"

\* The downstream stage never stays parked behind a dropped sender.
C19_NotLeftParked == UpstreamGone => ~Parked(Rx)

\* recv reports Disconnected only after the upstream sender released the
\* primitive, and on a drained link that is what a recv returns.
C19_ExitStep ==
    /\ (~RelayExited /\ RelayExited') => txInner = {}
    /\ (/\ txInner = {} /\ queue = <<>> /\ Inflight = <<>>
        /\ pc[Rx] # "idle" /\ pc'[Rx] = "idle") => RelayExited'

\* Once the upstream sender is released the downstream stage's recv returns
\* Disconnected and the stage leaves its loop.
C19_StageExits == (txInner = {}) ~> RelayExited

\* C19: cascading shutdown, link by link.  When the stage upstream of a link
\* drops its sender, the downstream stage's recv, parked or not, returns
\* Disconnected once the link is drained, the stage leaves its loop (and so
\* drops the sender of the next link), and it never stays parked; for the
\* unbounded and for the bounded channel.
C19_CascadingShutdown ==
    /\ []C19_NotLeftParked
    /\ [][C19_ExitStep]_vars
    /\ C19_StageExits

\* C19's case: every forwarded value has been drained, the stage had parked
\* in recv, the upstream sender was dropped and the recv returned
\* Disconnected.
C19_Witness ==
    /\ UpstreamGone /\ RelayExited /\ lastRet.parked
    /\ pushed # <<>> /\ delivered = pushed /\ queue = <<>>

\* The receiver's code is running: it is neither parked nor gone.
ReceiverRunning == pc[Rx] \notin {"parked", "rd_drain", "rd_arc", "dropped"}

\* The receiver has been dropped or is being dropped.
ReceiverDropped == pc[Rx] \in {"rd_drain", "rd_arc", "dropped"}

\* C20: the consumer-side wait list (Receiver's wait_list, SyncReceiver's
\* recv_wait_list) holds at most one handle in every reachable state, that
\* handle is the receiver's, and the list is empty whenever the receiver is
\* running or has been dropped.
C20_ConsumerListAtMostOne ==
    /\ Len(wl) <= 1
    /\ Range(wl) \subseteq {Rx}
    /\ (ReceiverRunning \/ ReceiverDropped) => wl = <<>>

\* C20's case: the receiver had parked with its handle on the list, a send
\* popped it, and the receiver runs again with the list empty while a
\* producer waits on the other list.
C20_Witness ==
    /\ pc[Rx] = "resumed" /\ parkedIn[Rx] /\ wl = <<>>
    /\ \E p \in Prod : Parked(p)

====
